---- MODULE Spec2Model ----
(***************************************************************************)
(* Model of Build/lib/cache-filesystem.ts: the sqlite-backed TTL cache     *)
(* (class Cache) and the array codec (serializeArray / deserializeArray).  *)
(*                                                                         *)
(* Time is counted in ticks; a day is DayLen ticks and tick 0 is the Unix  *)
(* epoch (1970-01-01T00:00Z, a Thursday).  A table is a set of rows        *)
(* [key, value, ttl]; the column named ttl holds the absolute expiry.      *)
(***************************************************************************)
EXTENDS Integers, Sequences, FiniteSets, TLC

VARIABLES
    clock,      \* Date.now(), in ticks
    tz,         \* offset of local time from UTC, in ticks (fixed per run)
    tables,     \* names of the tables that exist in cache.db
    rows,       \* [TableNames -> set of rows]: the content of each table
    indexOn,    \* the set of tables the index named cache_ttl is on (0 or 1)
    engines,    \* [Engines -> [open, tableName]]: the Cache instances
    local,      \* [Engines -> where a call in progress stands, its locals]
    call,       \* the last call made by a caller, its arguments and outcome
    promise,    \* history: per table and key, what the last set promised
    cons,       \* history: the last construction
    xs,         \* codec: the list of strings given to serializeArray
    str,        \* codec: the serialized string
    arr,        \* codec: the result of deserializeArray
    cpc         \* codec: position ("idle", "serialized", "deserialized")

vars == <<clock, tz, tables, rows, indexOn, engines, local, call, promise,
          cons, xs, str, arr, cpc>>
cacheVars == <<clock, tz, tables, rows, indexOn, engines, local, call,
               promise, cons>>
codecVars == <<xs, str, arr, cpc>>

(***************************************************************************)
(* Bounds of the model.                                                    *)
(***************************************************************************)
DayLen == 2
StartDay == 1
MaxTicks == 2
MaxTtl == 1
MaxTbd == 1
MaxArr == 2
MaxStrLen == 2

\* the run starts at 00:00Z of day StartDay and lasts at most MaxTicks ticks
StartClock == StartDay * DayLen
MaxClock == StartClock + MaxTicks

Engines == {"e1", "e2"}
TableNames == {"cache", "t2"}
UserKeys == {"k1"}
Values == {"", "a"}
Ttls == 0..MaxTtl
Tbds == 0..MaxTbd
TzOffsets == {0 - 1, 0, 1}
Chars == {"x", "y"}

(***************************************************************************)
(* Values of the program.                                                  *)
(***************************************************************************)
\* JavaScript null: what get returns for "not found", and an SQL NULL value.
Null == "<null>"
\* JavaScript undefined.
Undefined == "<undefined>"
\* what a statement that throws leaves as the outcome of the call
Thrown == "<throws>"
Ok == "<ok>"

SentinelKey == "__LAST_VACUUM"
Keys == UserKeys \cup {SentinelKey}

\* 10 * 365 * 60 * 60 * 24 * 1000 ms = 3650 days
SentinelTtl == 10 * 365 * DayLen

\* 1970-01-01 was a Thursday
EpochDay == 4
Saturday == 6

Row(k, v, t) == [key |-> k, value |-> v, ttl |-> t]

(***************************************************************************)
(* Date: the parts of `new Date()` the constructor reads.  Local time is   *)
(* UTC shifted by tz; the calendar below covers 1969-12 and 1970-01.       *)
(***************************************************************************)
LocalDay(t) == (t + tz) \div DayLen
getFullYear(t) == IF LocalDay(t) < 0 THEN 1969 ELSE 1970
getMonth(t) == IF LocalDay(t) < 0 THEN 11 ELSE 0
getDate(t) == IF LocalDay(t) < 0 THEN 32 + LocalDay(t) ELSE LocalDay(t) + 1
getUTCDay(t) == ((t \div DayLen) + EpochDay) % 7

dateString(t) ==
    ToString(getFullYear(t)) \o "-" \o ToString(getMonth(t) + 1)
        \o "-" \o ToString(getDate(t))

(***************************************************************************)
(* The prepared statements, as functions on the content rs of a table.     *)
(***************************************************************************)
\* faulty variant: an INSERT that adds the row and keeps the one it conflicts with
InsertStmtNoConflict(rs, k, v, valid) == rs \cup {Row(k, v, valid)}

\* INSERT ... ON CONFLICT(key) DO UPDATE SET value = $value, ttl = $valid
InsertStmt(rs, k, v, valid) ==
    {r \in rs : r.key # k} \cup {Row(k, v, valid)}

\* faulty variant: a DELETE whose WHERE clause is lost
DelStmtAll(rs, k) == {}

\* DELETE FROM t WHERE key = ?
DelStmt(rs, k) == {r \in rs : r.key # k}

\* faulty variant: an UPDATE that inserts the row it does not find
UpdateTtlStmtUpsert(rs, valid, k) ==
    IF \E r \in rs : r.key = k
        THEN {IF r.key = k THEN [r EXCEPT !.ttl = valid] ELSE r : r \in rs}
        ELSE rs \cup {Row(k, Null, valid)}

\* faulty variant: an UPDATE whose WHERE clause is lost
UpdateTtlStmtAll(rs, valid, k) == {[r EXCEPT !.ttl = valid] : r \in rs}

\* UPDATE t SET ttl = ? WHERE key = ?
UpdateTtlStmt(rs, valid, k) ==
    {IF r.key = k THEN [r EXCEPT !.ttl = valid] ELSE r : r \in rs}

\* SELECT ttl, value FROM t WHERE key = ? LIMIT 1: no row or one row
GetStmt(rs, k) ==
    LET hit == {r \in rs : r.key = k}
    IN  IF hit = {} THEN {} ELSE {CHOOSE r \in hit : TRUE}

\* faulty variant: a purge that also deletes the rows at the bound
PurgeStmtInclusive(rs, bound) == {r \in rs : ~(r.ttl <= bound)}

\* faulty variant: a purge that forgets the grace period is already in its bound
\* and compares ttl + tbd with it once more (here with tbd = 2)
PurgeStmtLate(rs, bound) == {r \in rs : ~(r.ttl + 2 < bound)}

\* DELETE FROM t WHERE ttl < ?
PurgeStmt(rs, bound) == {r \in rs : ~(r.ttl < bound)}

(***************************************************************************)
(* The methods, as functions from the content of the bound table to the    *)
(* new content (and the returned value).                                   *)
(***************************************************************************)
CacheSet(rs, k, v, ttl, now) == InsertStmt(rs, k, v, now + ttl)

CacheDel(rs, k) == DelStmt(rs, k)

\* faulty variant: updateTtl that leaves a row that has expired alone
CacheUpdateTtlFreshOnly(rs, k, ttl, now) ==
    IF \E r \in rs : r.key = k /\ r.ttl < now
        THEN rs
        ELSE UpdateTtlStmt(rs, now + ttl, k)

\* faulty variant: updateTtl that stores the duration instead of the expiry
CacheUpdateTtlRelative(rs, k, ttl, now) == UpdateTtlStmt(rs, ttl, k)

CacheUpdateTtl(rs, k, ttl, now) == UpdateTtlStmt(rs, now + ttl, k)

\* faulty variant: get that treats a row as stale at the instant it expires
CacheGetEarly(rs, k, now) ==
    LET rv == GetStmt(rs, k)
    IN  IF rv = {} THEN [ret |-> Null, rows |-> rs]
        ELSE LET r == CHOOSE r \in rv : TRUE
             IN  IF r.ttl <= now THEN [ret |-> Null, rows |-> CacheDel(rs, k)]
                 ELSE IF r.value = Null
                          THEN [ret |-> Null, rows |-> CacheDel(rs, k)]
                 ELSE [ret |-> r.value, rows |-> rs]

\* faulty variant: get that reports a stale row absent and leaves it in the table
CacheGetNoEvict(rs, k, now) ==
    LET rv == GetStmt(rs, k)
    IN  IF rv = {} THEN [ret |-> Null, rows |-> rs]
        ELSE LET r == CHOOSE r \in rv : TRUE
             IN  IF r.ttl < now THEN [ret |-> Null, rows |-> rs]
                 ELSE IF r.value = Null
                          THEN [ret |-> Null, rows |-> CacheDel(rs, k)]
                 ELSE [ret |-> r.value, rows |-> rs]

\* faulty variant: get that takes the empty string for a missing value
CacheGetFalsy(rs, k, now) ==
    LET rv == GetStmt(rs, k)
    IN  IF rv = {} THEN [ret |-> Null, rows |-> rs]
        ELSE LET r == CHOOSE r \in rv : TRUE
             IN  IF r.ttl < now THEN [ret |-> Null, rows |-> CacheDel(rs, k)]
                 ELSE IF r.value = Null \/ r.value = ""
                          THEN [ret |-> Null, rows |-> CacheDel(rs, k)]
                 ELSE [ret |-> r.value, rows |-> rs]

\* get: [ret |-> the value or Null, rows |-> the content afterwards]
CacheGet(rs, k, now) ==
    LET rv == GetStmt(rs, k)
    IN  IF rv = {} THEN [ret |-> Null, rows |-> rs]
        ELSE LET r == CHOOSE r \in rv : TRUE
             IN  IF r.ttl < now THEN [ret |-> Null, rows |-> CacheDel(rs, k)]
                 ELSE IF r.value = Null
                          THEN [ret |-> Null, rows |-> CacheDel(rs, k)]
                 ELSE [ret |-> r.value, rows |-> rs]

\* faulty variant: a gate that compacts on every Saturday construction
VacuumGateAnySaturday(lastVaccum, now) ==
    \/ lastVaccum = Undefined
    \/ getUTCDay(now) = Saturday

\* The gate of the constructor's compaction, on what get returned.
VacuumGate(lastVaccum, now) ==
    \/ lastVaccum = Undefined
    \/ (lastVaccum # dateString(now) /\ getUTCDay(now) = Saturday)

\* The constructor from the purge on: [rows, purged, lastVaccum, vacuums]
CacheInit(rs, tbd, now) ==
    LET purged == PurgeStmt(rs, now - tbd)
        got == CacheGet(purged, SentinelKey, now)
        lastVaccum == got.ret
    IN  IF VacuumGate(lastVaccum, now)
            THEN [rows |-> CacheSet(got.rows, SentinelKey, dateString(now),
                                    SentinelTtl, now),
                  purged |-> Cardinality(rs) - Cardinality(purged),
                  lastVaccum |-> lastVaccum, vacuums |-> 1]
            ELSE [rows |-> got.rows,
                  purged |-> Cardinality(rs) - Cardinality(purged),
                  lastVaccum |-> lastVaccum, vacuums |-> 0]

(***************************************************************************)
(* History kept for the properties.                                        *)
(***************************************************************************)
\* what the last set of a key promised, and whether an updateTtl that found
\* the row has moved its expiry since
NoPromise == [live |-> FALSE, value |-> Null, setExpiry |-> 0, expiry |-> 0,
              touched |-> FALSE]
Promised(v, expiry) == [live |-> TRUE, value |-> v, setExpiry |-> expiry,
                        expiry |-> expiry, touched |-> FALSE]

\* the last construction: its table, its dateString, its getUTCDay, whether
\* it compacted, and whether a caller wrote the sentinel row of (or dropped)
\* that table since
NoCons == [valid |-> FALSE, table |-> "", date |-> "", day |-> 0,
           vacuums |-> 0, dirty |-> FALSE]

\* a call: the operation, its arguments, what the SELECT of get found (rv),
\* what was returned (ret), the rows changed, whether the key had a row
\* before the call (hit) and whether that row had expired (stale, for
\* updateTtl); for a construction what get('__LAST_VACUUM') returned (ret),
\* the compactions run and the record of the construction before it; fault:
\* which statement of the call the storage engine failed (0: none); stmts:
\* the statements a call with a fault issued
Call(op, e, t, k) ==
    [op |-> op, eng |-> e, table |-> t, key |-> k, value |-> Null, ttl |-> 0,
     tbd |-> 0, rv |-> {}, ret |-> Ok, changes |-> 0, vacuums |-> 0,
     hit |-> FALSE, stale |-> FALSE, fault |-> 0, stmts |-> 0,
     prev |-> NoCons]

NoCall == Call("none", "", "", "")

\* an instance with no call in progress
Idle == [pc |-> "idle", table |-> "", key |-> "", rv |-> {}, tbd |-> 0,
         now |-> 0]

Closed == [open |-> FALSE, tableName |-> ""]
Open(t) == [open |-> TRUE, tableName |-> t]

\* a caller's write to the sentinel row of table t
Dirty(t, k) ==
    IF k = SentinelKey /\ cons.valid /\ cons.table = t
        THEN [cons EXCEPT !.dirty = TRUE]
        ELSE cons

Usable(e) == engines[e].open /\ engines[e].tableName \in tables
RowsOf(rs, k) == {r \in rs : r.key = k}

(***************************************************************************)
(* Codec.  A string is a sequence of characters; the separator is one      *)
(* character.                                                              *)
(***************************************************************************)
separator == "\\u0000"
InputChars == Chars \cup {separator}

\* foxts fastStringArrayJoin(arr, sep): '' for an empty array, else
\* arr[0] followed by sep and arr[i] for every further i
RECURSIVE JoinFrom(_, _, _, _)
JoinFrom(a, sep, i, result) ==
    IF i > Len(a) THEN result
    ELSE JoinFrom(a, sep, i + 1, (result \o <<sep>>) \o a[i])

fastStringArrayJoin(a, sep) ==
    IF Len(a) = 0 THEN <<>> ELSE JoinFrom(a, sep, 2, a[1])

\* String.prototype.split(sep) for a one-character sep: the pieces between
\* the occurrences of sep; a string without sep (the empty one too) gives
\* one piece
RECURSIVE SplitFrom(_, _, _, _)
SplitFrom(s, sep, i, piece) ==
    IF i > Len(s) THEN <<piece>>
    ELSE IF s[i] = sep THEN <<piece>> \o SplitFrom(s, sep, i + 1, <<>>)
    ELSE SplitFrom(s, sep, i + 1, Append(piece, s[i]))

\* faulty variant: a split that drops the empty pieces
splitNoEmpty(s, sep) ==
    SelectSeq(SplitFrom(s, sep, 1, <<>>), LAMBDA piece : piece # <<>>)

split(s, sep) == SplitFrom(s, sep, 1, <<>>)

serializeArray(a) == fastStringArrayJoin(a, separator)
deserializeArray(s) == split(s, separator)

StringsUpTo(n) == UNION {[1..m -> InputChars] : m \in 0..n}
ArraysUpTo(n) == UNION {[1..m -> StringsUpTo(MaxStrLen)] : m \in 0..n}

(***************************************************************************)
(* Initial state: no cache.db yet, no Cache instance.                      *)
(***************************************************************************)
CacheStart ==
    /\ clock = StartClock
    /\ tables = {}
    /\ rows = [t \in TableNames |-> {}]
    /\ indexOn = {}
    /\ engines = [e \in Engines |-> Closed]
    /\ local = [e \in Engines |-> Idle]
    /\ call = NoCall
    /\ promise = [t \in TableNames |-> [k \in Keys |-> NoPromise]]
    /\ cons = NoCons

CodecIdle ==
    /\ xs = <<>>
    /\ str = <<>>
    /\ arr = <<>>
    /\ cpc = "idle"

Init ==
    /\ tz = 0
    /\ CacheStart
    /\ CodecIdle

(***************************************************************************)
(* Actions of the cache.                                                   *)
(***************************************************************************)
\* time passes
Tick ==
    /\ clock < MaxClock
    /\ clock' = clock + 1
    /\ call' = Call("tick", "", "", "")
    /\ UNCHANGED <<tz, tables, rows, indexOn, engines, promise, cons>>
    /\ UNCHANGED codecVars
    /\ UNCHANGED local

\* new Cache({ tableName: t, tbd })
Construct(e, t, tbd) ==
    /\ ~engines[e].open
    /\ LET res == CacheInit(rows[t], tbd, clock)
       IN  /\ tables' = tables \cup {t}
           /\ indexOn' = IF indexOn = {} THEN {t} ELSE indexOn
           /\ rows' = [rows EXCEPT ![t] = res.rows]
           /\ engines' = [engines EXCEPT ![e] = Open(t)]
           /\ call' = [Call("construct", e, t, SentinelKey) EXCEPT
                          !.tbd = tbd, !.ret = res.lastVaccum,
                          !.changes = res.purged, !.vacuums = res.vacuums,
                          !.prev = cons]
           /\ promise' =
                 IF res.vacuums = 1
                     THEN [promise EXCEPT ![t][SentinelKey] =
                              Promised(dateString(clock), clock + SentinelTtl)]
                     ELSE promise
           /\ cons' = [valid |-> TRUE, table |-> t, date |-> dateString(clock),
                       day |-> getUTCDay(clock), vacuums |-> res.vacuums,
                       dirty |-> FALSE]
    /\ UNCHANGED <<clock, tz>>
    /\ UNCHANGED codecVars
    /\ UNCHANGED local

\* set(k, v, ttl)
Set(e, k, v, ttl) ==
    /\ Usable(e)
    /\ LET t == engines[e].tableName
       IN  /\ rows' = [rows EXCEPT ![t] = CacheSet(@, k, v, ttl, clock)]
           /\ call' = [Call("set", e, t, k) EXCEPT
                          !.value = v, !.ttl = ttl, !.changes = 1,
                          !.hit = (RowsOf(rows[t], k) # {})]
           /\ promise' = [promise EXCEPT ![t][k] = Promised(v, clock + ttl)]
           /\ cons' = Dirty(t, k)
    /\ UNCHANGED <<clock, tz, tables, indexOn, engines>>
    /\ UNCHANGED codecVars
    /\ UNCHANGED local

\* get(k)
Get(e, k) ==
    /\ Usable(e)
    /\ LET t == engines[e].tableName
           got == CacheGet(rows[t], k, clock)
       IN  /\ rows' = [rows EXCEPT ![t] = got.rows]
           /\ call' = [Call("get", e, t, k) EXCEPT
                          !.rv = GetStmt(rows[t], k), !.ret = got.ret,
                          !.hit = (RowsOf(rows[t], k) # {}),
                          !.changes = Cardinality(rows[t])
                                          - Cardinality(got.rows)]
    /\ UNCHANGED <<clock, tz, tables, indexOn, engines, promise, cons>>
    /\ UNCHANGED codecVars
    /\ UNCHANGED local

\* updateTtl(k, ttl)
UpdateTtl(e, k, ttl) ==
    /\ Usable(e)
    /\ LET t == engines[e].tableName
           n == Cardinality(RowsOf(rows[t], k))
       IN  /\ rows' = [rows EXCEPT ![t] = CacheUpdateTtl(@, k, ttl, clock)]
           /\ call' = [Call("updateTtl", e, t, k) EXCEPT
                          !.ttl = ttl, !.changes = n, !.hit = (n > 0),
                          !.stale = (\E r \in RowsOf(rows[t], k) :
                                         r.ttl < clock)]
           /\ promise' =
                 IF n > 0
                     THEN [promise EXCEPT ![t][k].expiry = clock + ttl,
                                          ![t][k].touched = TRUE]
                     ELSE promise
           /\ cons' = IF n > 0 THEN Dirty(t, k) ELSE cons
    /\ UNCHANGED <<clock, tz, tables, indexOn, engines>>
    /\ UNCHANGED codecVars
    /\ UNCHANGED local

\* del(k)
Del(e, k) ==
    /\ Usable(e)
    /\ LET t == engines[e].tableName
           n == Cardinality(RowsOf(rows[t], k))
       IN  /\ rows' = [rows EXCEPT ![t] = CacheDel(@, k)]
           /\ call' = [Call("del", e, t, k) EXCEPT
                          !.changes = n, !.hit = (n > 0)]
           /\ promise' = [promise EXCEPT ![t][k] = NoPromise]
           /\ cons' = Dirty(t, k)
    /\ UNCHANGED <<clock, tz, tables, indexOn, engines>>
    /\ UNCHANGED codecVars
    /\ UNCHANGED local

\* set, get, updateTtl or del of an instance whose table was dropped: the
\* prepared statement throws (no such table) and nothing changes
Throws(op, e, k) ==
    /\ engines[e].open
    /\ engines[e].tableName \notin tables
    /\ call' = [Call(op, e, engines[e].tableName, k) EXCEPT !.ret = Thrown]
    /\ UNCHANGED <<clock, tz, tables, rows, indexOn, engines, promise, cons>>
    /\ UNCHANGED codecVars
    /\ UNCHANGED local

\* faulty variant: deleteTable that drops the table the instance is bound to
DeleteTableOwn(e, t) ==
    /\ engines[e].open
    /\ LET own == engines[e].tableName
       IN  /\ tables' = tables \ {own}
           /\ rows' = [rows EXCEPT ![own] = {}]
           /\ indexOn' = indexOn \ {own}
           /\ promise' = [promise EXCEPT ![own] = [k \in Keys |-> NoPromise]]
    /\ call' = [Call("deleteTable", e, t, "") EXCEPT
                   !.hit = (t \in tables), !.changes = Cardinality(rows[t])]
    /\ cons' = cons
    /\ UNCHANGED <<clock, tz, engines>>
    /\ UNCHANGED codecVars
    /\ UNCHANGED local

\* deleteTable(t): DROP TABLE IF EXISTS t (its rows and its indexes go)
DeleteTable(e, t) ==
    /\ engines[e].open
    /\ tables' = tables \ {t}
    /\ rows' = [rows EXCEPT ![t] = {}]
    /\ indexOn' = indexOn \ {t}
    /\ call' = [Call("deleteTable", e, t, "") EXCEPT
                   !.hit = (t \in tables), !.changes = Cardinality(rows[t])]
    /\ promise' = [promise EXCEPT ![t] = [k \in Keys |-> NoPromise]]
    /\ cons' = IF cons.valid /\ cons.table = t
                   THEN [cons EXCEPT !.dirty = TRUE]
                   ELSE cons
    /\ UNCHANGED <<clock, tz, engines>>
    /\ UNCHANGED codecVars
    /\ UNCHANGED local

\* destroy(): the handle is closed, the instance is not used again
Destroy(e) ==
    /\ engines[e].open
    /\ engines' = [engines EXCEPT ![e] = Closed]
    /\ call' = Call("destroy", e, engines[e].tableName, "")
    /\ UNCHANGED <<clock, tz, tables, rows, indexOn, promise, cons>>
    /\ UNCHANGED codecVars
    /\ UNCHANGED local

Ops == {"set", "get", "updateTtl", "del"}

\* One instance on the table "cache", every method.
Next ==
    \/ Tick
    \/ \E tbd \in Tbds : Construct("e1", "cache", tbd)
    \/ \E k \in Keys, v \in Values, ttl \in Ttls : Set("e1", k, v, ttl)
    \/ \E k \in Keys : Get("e1", k)
    \/ \E k \in Keys, ttl \in Ttls : UpdateTtl("e1", k, ttl)
    \/ \E k \in Keys : Del("e1", k)
    \/ \E op \in Ops, k \in Keys : Throws(op, "e1", k)
    \/ DeleteTable("e1", "cache")
    \/ Destroy("e1")

Spec == Init /\ [][Next]_vars

(***************************************************************************)
(* The constructor's compaction on its own: constructions of one instance  *)
(* on the table "cache" in any timezone, with a caller's writes to the     *)
(* sentinel row in between.                                                *)
(***************************************************************************)
VacuumInit ==
    /\ tz \in TzOffsets
    /\ CacheStart
    /\ CodecIdle

VacuumNext ==
    \/ Tick
    \/ Construct("e1", "cache", 0)
    \/ \E v \in Values, ttl \in Ttls : Set("e1", SentinelKey, v, ttl)
    \/ Get("e1", SentinelKey)
    \/ Del("e1", SentinelKey)
    \/ Destroy("e1")

SpecVacuum == VacuumInit /\ [][VacuumNext]_vars

(***************************************************************************)
(* The codec on its own: a list is serialized, the string deserialized.    *)
(***************************************************************************)
CodecInit ==
    /\ tz = 0
    /\ CacheStart
    /\ xs \in ArraysUpTo(MaxArr)
    /\ str = <<>>
    /\ arr = <<>>
    /\ cpc = "idle"

Serialize ==
    /\ cpc = "idle"
    /\ str' = serializeArray(xs)
    /\ cpc' = "serialized"
    /\ UNCHANGED <<xs, arr>>
    /\ UNCHANGED cacheVars

Deserialize ==
    /\ cpc = "serialized"
    /\ arr' = deserializeArray(str)
    /\ cpc' = "deserialized"
    /\ UNCHANGED <<xs, str>>
    /\ UNCHANGED cacheVars

CodecNext == Serialize \/ Deserialize

SpecCodec == CodecInit /\ [][CodecNext]_vars

(***************************************************************************)
(* Failures of the storage engine.  No method catches what a statement     *)
(* throws and no method runs a statement again; a statement that fails     *)
(* changes nothing (sqlite's atomicity per statement).                     *)
(***************************************************************************)
(* Several instances and several tables in one cache.db.                   *)
(***************************************************************************)
TablesInit ==
    /\ tz = 0
    /\ CacheStart
    /\ CodecIdle

TablesNext ==
    \/ Tick
    \/ \E e \in Engines, t \in TableNames : Construct(e, t, 0)
    \/ \E e \in Engines, ttl \in Ttls : Set(e, "k1", "a", ttl)
    \/ \E e \in Engines, op \in Ops : Throws(op, e, "k1")
    \/ \E e \in Engines, t \in TableNames : DeleteTable(e, t)
    \/ \E e \in Engines : Destroy(e)

SpecTables == TablesInit /\ [][TablesNext]_vars

(***************************************************************************)
(* get statement by statement: two instances in separate processes on the  *)
(* table "cache"; the statements of one's get interleave with the other's  *)
(* set.                                                                    *)
(***************************************************************************)
\* get(k), first statement: the SELECT, and the reading of Date.now()
GetSelect(e, k) ==
    /\ Usable(e)
    /\ local[e].pc = "idle"
    /\ LET t == engines[e].tableName
       IN  /\ local' = [local EXCEPT ![e] =
                           [Idle EXCEPT !.pc = "selected", !.table = t,
                                        !.key = k, !.rv = GetStmt(rows[t], k),
                                        !.now = clock]]
           /\ call' = [Call("select", e, t, k) EXCEPT
                          !.rv = GetStmt(rows[t], k)]
    /\ UNCHANGED <<clock, tz, tables, rows, indexOn, engines, promise, cons>>
    /\ UNCHANGED codecVars

\* get(k), the rest: on what the SELECT returned, this.del(key) or nothing
GetFinish(e) ==
    /\ engines[e].open
    /\ local[e].pc = "selected"
    /\ LET t == local[e].table
           k == local[e].key
           rv == local[e].rv
           dels == \E r \in rv : r.ttl < local[e].now \/ r.value = Null
           after == IF dels THEN DelStmt(rows[t], k) ELSE rows[t]
       IN  /\ rows' = [rows EXCEPT ![t] = after]
           /\ call' = [Call("get", e, t, k) EXCEPT
                          !.rv = rv,
                          !.ret = IF rv = {} \/ dels THEN Null
                                  ELSE (CHOOSE r \in rv : TRUE).value,
                          !.hit = (rv # {}),
                          !.changes = Cardinality(rows[t])
                                          - Cardinality(after)]
    /\ local' = [local EXCEPT ![e] = Idle]
    /\ UNCHANGED <<clock, tz, tables, indexOn, engines, promise, cons>>
    /\ UNCHANGED codecVars

RaceInit ==
    /\ tz = 0
    /\ CacheStart
    /\ CodecIdle

RaceNext ==
    \/ Tick
    \/ \E e \in Engines : Construct(e, "cache", 0)
    \/ \E ttl \in Ttls : Set("e2", "k1", "a", ttl)
    \/ GetSelect("e1", "k1")
    \/ GetFinish("e1")

SpecRace == RaceInit /\ [][RaceNext]_vars

(***************************************************************************)
(* The constructor statement by statement: one instance on "cache".  date  *)
(* (line 88) is read once, at the start; get and set read Date.now()       *)
(* themselves.                                                             *)
(***************************************************************************)
\* faulty variant: VACUUM issued before the sentinel is written
AfterStepVacuumFirst(pc, gate) ==
    CASE pc = "purge" -> "read"
      [] pc = "read" -> IF gate THEN "vacuum" ELSE "done"
      [] pc = "vacuum" -> "write"
      [] pc = "write" -> "done"

\* the order of the constructor's statements from the purge on
AfterStep(pc, gate) ==
    CASE pc = "purge" -> "read"
      [] pc = "read" -> IF gate THEN "write" ELSE "done"
      [] pc = "write" -> "vacuum"
      [] pc = "vacuum" -> "done"

\* the constructor goes on to its next statement, or returns the instance
StepTo(e, t, next, vacuums) ==
    /\ local' = [local EXCEPT ![e] =
                    IF next = "done" THEN Idle ELSE [@ EXCEPT !.pc = next]]
    /\ engines' = [engines EXCEPT ![e] =
                      IF next = "done" THEN Open(t) ELSE @]
    /\ call' = [Call(IF next = "done" THEN "construct" ELSE local[e].pc,
                     e, t, SentinelKey) EXCEPT
                   !.tbd = local[e].tbd, !.vacuums = vacuums,
                   !.value = dateString(local[e].now)]

\* new Cache({ tableName: t, tbd }) up to const date = new Date()
CBegin(e, t, tbd) ==
    /\ ~engines[e].open
    /\ local[e].pc = "idle"
    /\ tables' = tables \cup {t}
    /\ indexOn' = IF indexOn = {} THEN {t} ELSE indexOn
    /\ local' = [local EXCEPT ![e] =
                    [Idle EXCEPT !.pc = "purge", !.table = t, !.tbd = tbd,
                                 !.now = clock]]
    /\ call' = [Call("create", e, t, SentinelKey) EXCEPT !.tbd = tbd]
    /\ UNCHANGED <<clock, tz, rows, engines, promise, cons>>
    /\ UNCHANGED codecVars

\* DELETE FROM t WHERE ttl < date.getTime() - tbd
CPurge(e) ==
    /\ local[e].pc = "purge"
    /\ LET t == local[e].table
       IN  /\ rows' = [rows EXCEPT ![t] =
                          PurgeStmt(@, local[e].now - local[e].tbd)]
           /\ StepTo(e, t, AfterStep("purge", FALSE), 0)
    /\ UNCHANGED <<clock, tz, tables, indexOn, promise, cons>>
    /\ UNCHANGED codecVars

\* lastVaccum = this.get('__LAST_VACUUM') and the test of the gate
CRead(e) ==
    /\ local[e].pc = "read"
    /\ LET t == local[e].table
           got == CacheGet(rows[t], SentinelKey, clock)
       IN  /\ rows' = [rows EXCEPT ![t] = got.rows]
           /\ StepTo(e, t, AfterStep("read",
                                     VacuumGate(got.ret, local[e].now)), 0)
    /\ UNCHANGED <<clock, tz, tables, indexOn, promise, cons>>
    /\ UNCHANGED codecVars

\* this.set('__LAST_VACUUM', dateString, 10 years)
CWrite(e) ==
    /\ local[e].pc = "write"
    /\ LET t == local[e].table
       IN  /\ rows' = [rows EXCEPT ![t] =
                          CacheSet(@, SentinelKey, dateString(local[e].now),
                                   SentinelTtl, clock)]
           /\ StepTo(e, t, AfterStep("write", TRUE), 1)
    /\ UNCHANGED <<clock, tz, tables, indexOn, promise, cons>>
    /\ UNCHANGED codecVars

\* this.db.exec('VACUUM;') succeeds
CVacuum(e) ==
    /\ local[e].pc = "vacuum"
    /\ StepTo(e, local[e].table, AfterStep("vacuum", TRUE), 1)
    /\ UNCHANGED <<clock, tz, tables, rows, indexOn, promise, cons>>
    /\ UNCHANGED codecVars

\* this.db.exec('VACUUM;') fails: the constructor throws, there is no
\* instance, and what the earlier statements wrote stays
CVacuumFails(e) ==
    /\ local[e].pc = "vacuum"
    /\ local' = [local EXCEPT ![e] = Idle]
    /\ call' = [Call("construct", e, local[e].table, SentinelKey) EXCEPT
                   !.tbd = local[e].tbd, !.ret = Thrown,
                   !.value = dateString(local[e].now)]
    /\ UNCHANGED <<clock, tz, tables, rows, indexOn, engines, promise, cons>>
    /\ UNCHANGED codecVars

StepsInit ==
    /\ tz = 0
    /\ CacheStart
    /\ CodecIdle

StepsNext ==
    \/ Tick
    \/ \E tbd \in Tbds : CBegin("e1", "cache", tbd)
    \/ CPurge("e1")
    \/ CRead("e1")
    \/ CWrite("e1")
    \/ CVacuum("e1")
    \/ CVacuumFails("e1")
    \/ \E k \in Keys, v \in Values, ttl \in Ttls : Set("e1", k, v, ttl)
    \/ Destroy("e1")

SpecSteps == StepsInit /\ [][StepsNext]_vars

(***************************************************************************)
(* Rows whose value column is NULL (the column has no NOT NULL): one       *)
(* instance on "cache", sets that bind null.                               *)
(***************************************************************************)
NullInit ==
    /\ tz = 0
    /\ CacheStart
    /\ CodecIdle

NullNext ==
    \/ Tick
    \/ Construct("e1", "cache", 0)
    \/ \E k \in Keys, v \in Values \cup {Null}, ttl \in Ttls :
           Set("e1", k, v, ttl)
    \/ \E k \in Keys : Get("e1", k)

SpecNull == NullInit /\ [][NullNext]_vars

(***************************************************************************)
\* get issues its DELETE (through del) when the row it selected is stale or
\* holds NULL
GetIssuesDel(rs, k, now) ==
    \E r \in GetStmt(rs, k) : r.ttl < now \/ r.value = Null

\* the statements a call issues when none fails
StmtCount(op, rs, k, now) ==
    IF op = "get" /\ GetIssuesDel(rs, k, now) THEN 2 ELSE 1

\* faulty variant: get catches the failure of its DELETE and reports the key
\* absent; set, updateTtl and del run their statement once more
RunWithFaultHandled(op, rs, k, v, ttl, now, f) ==
    IF op = "get"
        THEN [ret |-> IF f = 2 THEN Null ELSE Thrown, rows |-> rs,
              stmts |-> f]
        ELSE [ret |-> Ok, stmts |-> 2,
              rows |-> CASE op = "set" -> CacheSet(rs, k, v, ttl, now)
                         [] op = "updateTtl" -> CacheUpdateTtl(rs, k, ttl, now)
                         [] OTHER -> CacheDel(rs, k)]

\* a call whose f-th statement fails: the statements before it ran (the
\* SELECT of get changes nothing), the failure leaves the method at once
RunWithFault(op, rs, k, v, ttl, now, f) ==
    [ret |-> Thrown, rows |-> rs, stmts |-> f]

\* set, get, updateTtl or del during which the storage engine fails the f-th
\* statement
Faulty(e, op, k, v, ttl, f) ==
    /\ Usable(e)
    /\ LET t == engines[e].tableName
           res == RunWithFault(op, rows[t], k, v, ttl, clock, f)
       IN  /\ f <= StmtCount(op, rows[t], k, clock)
           /\ rows' = [rows EXCEPT ![t] = res.rows]
           /\ call' = [Call(op, e, t, k) EXCEPT
                          !.value = v, !.ttl = ttl, !.ret = res.ret,
                          !.rv = IF op = "get" /\ f = 2
                                     THEN GetStmt(rows[t], k) ELSE {},
                          !.fault = f, !.stmts = res.stmts]
    /\ UNCHANGED <<clock, tz, tables, indexOn, engines, promise, cons>>
    /\ UNCHANGED codecVars
    /\ UNCHANGED local

FailInit ==
    /\ tz = 0
    /\ CacheStart
    /\ CodecIdle

FailNext ==
    \/ Tick
    \/ Construct("e1", "cache", 0)
    \/ \E v \in Values, ttl \in Ttls : Set("e1", "k1", v, ttl)
    \/ Get("e1", "k1")
    \/ \E ttl \in Ttls : UpdateTtl("e1", "k1", ttl)
    \/ Del("e1", "k1")
    \/ \E op \in Ops, v \in Values, ttl \in Ttls, f \in 1..2 :
           Faulty("e1", op, "k1", v, ttl, f)

SpecFail == FailInit /\ [][FailNext]_vars

(***************************************************************************)
(* Properties.                                                             *)
(***************************************************************************)
ThePromise == promise[call.table][call.key]
IsCall(op) == call.op = op /\ call.ret # Thrown
Stale(rv) == \E r \in rv : r.ttl < clock

\* C1 (as stated): a get(k) at a time t <= t0 + ttl after set(k, v, ttl) at
\* t0, with no set, del or deleteTable of k in between, returns v.
C1_RoundTripAsStated ==
    (IsCall("get") /\ ThePromise.live /\ clock <= ThePromise.setExpiry)
        => call.ret = ThePromise.value

\* C1 (amended): a get(k) at a time t <= t0 + ttl after set(k, v, ttl) at
\* t0, with no set, del or deleteTable of k and no updateTtl that found the
\* row of k in between, returns v.
C1_RoundTrip ==
    (IsCall("get") /\ ThePromise.live /\ ~ThePromise.touched
        /\ clock <= ThePromise.setExpiry)
        => call.ret = ThePromise.value

\* a get at the very instant of expiry, after time has passed, returns v
C1_Witness ==
    /\ IsCall("get")
    /\ ThePromise.live /\ ~ThePromise.touched
    /\ ThePromise.setExpiry = clock /\ clock > StartClock
    /\ call.ret = "a"

\* C2: a get(k) that finds a row with expiry < now returns absent and
\* leaves no row for k in the table; get never returns the value of such a
\* row.
C2_ExpiryEnforced ==
    (IsCall("get") /\ Stale(call.rv))
        => /\ call.ret = Null
           /\ RowsOf(rows[call.table], call.key) = {}

C2_Witness ==
    /\ IsCall("get") /\ Stale(call.rv)
    /\ call.changes = 1 /\ call.ret = Null

\* C3: once a construction at time now with grace period tbd completes,
\* the table holds no row with expiry < now - tbd.
C3_StartupPurge ==
    call.op = "construct"
        => \A r \in rows[call.table] : ~(r.ttl < clock - call.tbd)

\* a construction whose purge deleted a row
C3_Witness == call.op = "construct" /\ call.changes > 0 /\ call.tbd > 0

\* C4: every table holds at most one row per key, and after set(k, v2, ttl2)
\* the one row of k has the value v2 and the expiry now + ttl2.
C4_Upsert ==
    /\ \A t \in TableNames : \A r1, r2 \in rows[t] :
           r1.key = r2.key => r1 = r2
    /\ IsCall("set")
           => RowsOf(rows[call.table], call.key)
                  = {Row(call.key, call.value, clock + call.ttl)}

\* a set on a key that had a row with another value and another expiry
C4_Witness ==
    /\ IsCall("set") /\ call.hit
    /\ call.value = "a" /\ call.ttl = 0 /\ clock > StartClock

\* an updateTtl step moves the expiry of the row it finds and keeps the value
C5_UpdateStep ==
    (call'.op = "updateTtl" /\ call'.ret # Thrown)
        => \A r \in RowsOf(rows[call'.table], call'.key) :
               RowsOf(rows'[call'.table], call'.key)
                   = {Row(r.key, r.value, clock + call'.ttl)}

\* a get up to the expiry the last updateTtl gave returns the value set
C5_GetAfterUpdate ==
    (IsCall("get") /\ ThePromise.live /\ ThePromise.touched
        /\ clock <= ThePromise.expiry)
        => call.ret = ThePromise.value

\* C5: updateTtl(k, ttl) on a key with a row sets the expiry of the row to
\* now + ttl and keeps its value, and a get(k) up to the new expiry returns
\* the value that was set.
C5_UpdateTtlKeepsValue == [][C5_UpdateStep]_vars /\ []C5_GetAfterUpdate

\* a get after the expiry the set gave and before the one updateTtl gave
C5_Witness ==
    /\ IsCall("get") /\ ThePromise.live /\ ThePromise.touched
    /\ ThePromise.setExpiry < clock /\ clock <= ThePromise.expiry
    /\ call.ret = "a"

\* an updateTtl step on a key with no row
C6_Step ==
    (call'.op = "updateTtl" /\ Usable(call'.eng)
        /\ RowsOf(rows[call'.table], call'.key) = {})
        => /\ call'.ret = Ok
           /\ rows' = rows /\ tables' = tables /\ indexOn' = indexOn
           /\ CacheGet(rows'[call'.table], call'.key, clock').ret = Null

\* C6: updateTtl(k, ttl) on a key with no row (in an existing table) raises
\* nothing and changes nothing, and get(k) then returns absent.
C6_UpdateTtlMissingKey == [][C6_Step]_vars

C6_Witness ==
    call.op = "updateTtl" /\ call.ret = Ok /\ ~call.hit /\ call.ttl > 0

\* a del step
C7_Step ==
    (call'.op = "del" /\ Usable(call'.eng))
        => /\ call'.ret = Ok
           /\ rows' = [rows EXCEPT ![call'.table] =
                          {r \in @ : r.key # call'.key}]
           /\ tables' = tables
           /\ CacheDel(rows'[call'.table], call'.key) = rows'[call'.table]

\* C7: del(k) removes the row of k, whatever its expiry, and nothing else;
\* a second del(k) right after it changes nothing and does not fail.
C7_IdempotentDelete == [][C7_Step]_vars

\* a del that removed a row while another row stayed
C7_Witness ==
    /\ IsCall("del") /\ call.hit
    /\ rows[call.table] # {}

\* C8 (as stated): a construction compacts and writes the sentinel with
\* today's date if and only if get found no sentinel, or the stored date
\* differs from today's and today is Saturday.
C8_GateAsStated ==
    call.op = "construct"
        => /\ call.vacuums = 1
                  <=> \/ call.ret = Null
                      \/ (call.ret # dateString(clock)
                              /\ getUTCDay(clock) = Saturday)
           /\ call.vacuums = 1
                  => RowsOf(rows[call.table], SentinelKey)
                         = {Row(SentinelKey, dateString(clock),
                                clock + SentinelTtl)}

\* the construction before this one was on the same table and the same date
SameDayAsBefore ==
    /\ call.prev.valid
    /\ call.prev.table = call.table
    /\ call.prev.date = dateString(clock)

\* C9: two successive constructions on the same table and the same date
\* compact at most once in total: when the day is not a Saturday whatever
\* happened in between, and on any day when no caller wrote the sentinel in
\* between; a construction on a Saturday that finds no sentinel compacts
\* once and leaves the sentinel holding the date of that day.
C9_NoRepeat ==
    call.op = "construct"
        => /\ (SameDayAsBefore /\ call.prev.day = getUTCDay(clock)
                   /\ getUTCDay(clock) # Saturday)
                  => call.prev.vacuums + call.vacuums <= 1
           /\ (SameDayAsBefore /\ ~call.prev.dirty)
                  => call.prev.vacuums + call.vacuums <= 1
           /\ (call.ret = Null /\ getUTCDay(clock) = Saturday)
                  => /\ call.vacuums = 1
                     /\ RowsOf(rows[call.table], SentinelKey)
                            = {Row(SentinelKey, dateString(clock),
                                   clock + SentinelTtl)}

\* a second construction on the day of a compaction, which does not compact
C9_Witness ==
    /\ call.op = "construct"
    /\ SameDayAsBefore /\ ~call.prev.dirty
    /\ call.prev.vacuums = 1 /\ call.vacuums = 0

\* no string of the list holds the separator
NoSeparator(a) == \A i \in 1..Len(a) : \A j \in 1..Len(a[i]) :
                      a[i][j] # separator

\* C10 (as stated): deserializeArray(serializeArray(xs)) = xs for every list
\* xs of strings without the separator, the empty list included.
C10_CodecAsStated ==
    (cpc = "deserialized" /\ NoSeparator(xs)) => arr = xs

\* C10 (amended): deserializeArray(serializeArray(xs)) = xs for every
\* non-empty list xs of strings without the separator, lists of empty
\* strings included.
C10_CodecRoundTrip ==
    (cpc = "deserialized" /\ NoSeparator(xs) /\ Len(xs) > 0) => arr = xs

\* a list of an empty and a non-empty string came back
C10_Witness ==
    /\ cpc = "deserialized"
    /\ Len(xs) = 2 /\ xs[1] = <<>> /\ Len(xs[2]) = 1 /\ NoSeparator(xs)
    /\ arr = xs

\* a call during which the storage engine failed a statement
C11_Step ==
    call'.fault > 0
        => /\ call'.ret = Thrown
           /\ call'.stmts = call'.fault
           /\ rows' = rows /\ tables' = tables /\ indexOn' = indexOn

C12_Step ==
    call'.op = "deleteTable" =>
        LET t == call'.table
        IN  /\ call'.ret = Ok
            /\ t \notin tables'
            /\ rows'[t] = {}
            /\ \A u \in TableNames \ {t} :
                   /\ rows'[u] = rows[u]
                   /\ (u \in tables') = (u \in tables)
            /\ t \notin tables =>
                   /\ tables' = tables
                   /\ rows' = rows
                   /\ indexOn' = indexOn

C12_DeleteTable == [][C12_Step]_vars

\* a table with rows was dropped by an instance bound to another table,
\* whose rows are still there
C12_Witness ==
    /\ call.op = "deleteTable"
    /\ call.hit
    /\ call.changes > 0
    /\ engines[call.eng].tableName # call.table
    /\ call.table \notin tables
    /\ \E u \in tables : rows[u] # {}

\* a second deleteTable of the same table
C12_WitnessAgain ==
    /\ call.op = "deleteTable"
    /\ ~call.hit

\* C14: two constructions on the same calendar day run at most one
\* compaction between them (a consequence of at most one per week).
C14_OncePerWeek ==
    (/\ call.op = "construct"
     /\ call.prev.valid
     /\ call.prev.date = dateString(clock)
     /\ call.prev.day = getUTCDay(clock))
        => call.prev.vacuums + call.vacuums <= 1

\* C15: after a construction the bound table exists and has an index on its
\* expiry column.
C15_SchemaPerTable ==
    call.op = "construct" =>
        /\ call.table \in tables
        /\ call.table \in indexOn

\* the rows of the bound table that a construction step removed
DeletedByConstruct ==
    {r \in rows[call'.table] : RowsOf(rows'[call'.table], r.key) = {}}

\* C13 as stated: a construction at time now with grace period tbd deletes
\* no row whose expiry is >= now - tbd.
C13_GraceWindowAsStated ==
    [][call'.op = "construct" =>
          \A r \in DeletedByConstruct : r.ttl < clock - call'.tbd]_vars

\* C13: a construction at time now with grace period tbd deletes no row
\* whose expiry is >= now - tbd and leaves such a row as it was, the row of
\* the key __LAST_VACUUM excepted, which the constructor reads with get (and
\* so evicts when it is stale) and rewrites when it compacts.
C13_Step ==
    call'.op = "construct" =>
        /\ \A r \in DeletedByConstruct :
               r.key = SentinelKey \/ r.ttl < clock - call'.tbd
        /\ \A r \in rows[call'.table] :
               (r.key # SentinelKey /\ r.ttl >= clock - call'.tbd)
                   => r \in rows'[call'.table]

C13_GraceWindow == [][C13_Step]_vars

\* a construction with a grace period has left a stale row in the table
C13_Witness ==
    /\ call.op = "construct"
    /\ call.tbd > 0
    /\ \E r \in rows[call.table] :
           /\ r.key # SentinelKey
           /\ r.ttl < clock
           /\ r.ttl >= clock - call.tbd

\* C16: with the statements of two instances interleaved, the delete that a
\* get(k) issues never removes a row of k whose expiry is >= now at the
\* moment of the delete.
C16_NoFreshRowEvicted ==
    [][(call'.op = "get" /\ local[call'.eng].pc = "selected") =>
          \A r \in RowsOf(rows[call'.table], call'.key) :
              r \notin rows'[call'.table] => r.ttl < clock]_vars

\* the sentinel row of table t holds the date string d
SentinelHolds(t, d) ==
    /\ RowsOf(rows[t], SentinelKey) # {}
    /\ \A r \in RowsOf(rows[t], SentinelKey) : r.value = d

\* C17: within one construction the purge is complete before the sentinel
\* is read; whenever compaction is about to be issued the sentinel already
\* holds the date of the construction; and when the compaction command
\* fails the sentinel stays written.
C17_ConstructionOrder ==
    \A e \in Engines :
        /\ local[e].pc \in {"read", "write", "vacuum"} =>
               \A r \in rows[local[e].table] :
                   r.ttl >= local[e].now - local[e].tbd
        /\ local[e].pc = "vacuum" =>
               SentinelHolds(local[e].table, dateString(local[e].now))
        /\ (call.op = "construct" /\ call.eng = e /\ call.ret = Thrown) =>
               /\ SentinelHolds(call.table, call.value)
               /\ ~engines[e].open

\* a compaction that failed after the sentinel was written
C17_Witness ==
    /\ call.op = "construct"
    /\ call.ret = Thrown
    /\ SentinelHolds(call.table, dateString(clock))

\* the row of the call's key is missing, or fresh with a value
KeepsRow(rs, k, now) ==
    \A r \in RowsOf(rs, k) : r.ttl >= now /\ r.value # Null

\* C18: get(k) changes the table only by deleting the row of k, and only
\* when that row is stale or its value is null, and then returns absent
\* without raising; with no row for k, or a fresh row with a value (the
\* empty string included), get leaves the table unchanged.
C18_Step ==
    (call'.op = "get" /\ call'.fault = 0) =>
        LET t == call'.table
            k == call'.key
        IN  /\ call'.ret # Thrown
            /\ \A u \in TableNames \ {t} : rows'[u] = rows[u]
            /\ rows'[t] \subseteq rows[t]
            /\ \A r \in rows[t] \ rows'[t] :
                   r.key = k /\ (r.ttl < clock \/ r.value = Null)
            /\ rows'[t] # rows[t] => call'.ret = Null
            /\ KeepsRow(rows[t], k, clock) => rows' = rows
            /\ ~KeepsRow(rows[t], k, clock) =>
                   (RowsOf(rows'[t], k) = {} /\ call'.ret = Null)
            /\ \A r \in RowsOf(rows[t], k) :
                   KeepsRow(rows[t], k, clock) => call'.ret = r.value

C18_GetFrame == [][C18_Step]_vars

\* a get has evicted a fresh row whose value is null and left the row of
\* another key in the table
C18_Witness ==
    /\ call.op = "get"
    /\ call.changes = 1
    /\ call.ret = Null
    /\ \E r \in call.rv : r.value = Null /\ r.ttl >= clock
    /\ rows[call.table] # {}

\* a get has returned the empty string and left its row in the table
C18_WitnessEmpty ==
    /\ call.op = "get"
    /\ call.ret = ""
    /\ RowsOf(rows[call.table], call.key) # {}

\* C19: updateTtl(k, ttl) with ttl > 0 applies to a row of k that has expired
\* and is still in the table: the row keeps its value and gets the expiry
\* now + ttl, a get(k) at any time up to the new expiry returns the old
\* value, and so does the get(k) that follows the updateTtl.
C19_Step ==
    /\ (call'.op = "updateTtl" /\ call'.fault = 0 /\ call'.ret # Thrown
            /\ call'.ttl > 0) =>
           \A r \in RowsOf(rows[call'.table], call'.key) :
               r.ttl < clock =>
                   /\ RowsOf(rows'[call'.table], call'.key)
                          = {Row(r.key, r.value, clock + call'.ttl)}
                   /\ \A at \in clock..(clock + call'.ttl) :
                          CacheGet(rows'[call'.table], call'.key, at).ret
                              = r.value
    /\ (/\ call.op = "updateTtl" /\ call.hit /\ call.stale /\ call.ttl > 0
        /\ call.fault = 0 /\ call.ret # Thrown
        /\ call'.op = "get" /\ call'.fault = 0
        /\ call'.table = call.table /\ call'.key = call.key) =>
           /\ call'.ret = promise[call.table][call.key].value
           /\ call'.ret # Null
           /\ rows' = rows

C19_UpdateTtlRevives == [][C19_Step]_vars

\* an updateTtl has moved the expiry of a row that had expired
C19_Witness ==
    /\ call.op = "updateTtl"
    /\ call.hit
    /\ call.stale
    /\ call.ttl > 0
    /\ \E r \in RowsOf(rows[call.table], call.key) :
           r.ttl = clock + call.ttl

\* the rows of the table u that are not the row of key k of table t
Others(rs, u, t, k) == {r \in rs[u] : u # t \/ r.key # k}

\* C20: set(k, ..), get(k), updateTtl(k, ..) and del(k) leave every row of
\* another key (the sentinel row included) and of another table as it was; a
\* caller's set on __LAST_VACUUM writes the sentinel row and a caller's del
\* removes it.
C20_Step ==
    (call'.op \in Ops /\ call'.fault = 0 /\ call'.ret # Thrown) =>
        LET t == call'.table
            k == call'.key
        IN  /\ \A u \in TableNames :
                   Others(rows', u, t, k) = Others(rows, u, t, k)
            /\ (call'.op = "set" /\ k = SentinelKey) =>
                   RowsOf(rows'[t], SentinelKey)
                       = {Row(SentinelKey, call'.value, clock + call'.ttl)}
            /\ (call'.op = "del" /\ k = SentinelKey) =>
                   RowsOf(rows'[t], SentinelKey) = {}

C20_PerKeyFrame == [][C20_Step]_vars

\* a caller has overwritten the sentinel row while another key has a row
C20_Witness ==
    /\ call.op = "set"
    /\ call.key = SentinelKey
    /\ call.hit
    /\ \E r \in rows[call.table] : r.key # SentinelKey

\* an updateTtl has found its row while the sentinel row is in the table
C20_WitnessUpdate ==
    /\ call.op = "updateTtl"
    /\ call.key # SentinelKey
    /\ call.hit
    /\ RowsOf(rows[call.table], SentinelKey) # {}

====
